---- MODULE Spec2Model ----
(***************************************************************************)
(* A model of orgmodeparser.py: the tokenizer OrgParseIter, the node        *)
(* classes, the tree builder MinimalOrgParser.__init__/parse_block and the  *)
(* serializer MinimalOrgParser.dumps.                                       *)
(*                                                                          *)
(* A Python str is a sequence of one-character strings.  Positions are      *)
(* Python's (0-based): At(s, i) is s[i], Slice(s, a, b) is s[a:b].          *)
(* None is the one-element sequence <<"None">>, which is no str of the      *)
(* model since "None" is not one character.                                 *)
(***************************************************************************)
EXTENDS Integers, Sequences, FiniteSets, TLC

None == <<"None">>

\* ------------------------------------------------------------ str helpers

At(s, i) == s[i + 1]

Slice(s, a, b) == IF b <= a THEN <<>> ELSE SubSeq(s, a + 1, b)

SliceFrom(s, a) == Slice(s, a, Len(s))

SetMax(S) == CHOOSE x \in S : \A y \in S : y <= x

SetMin(S) == CHOOSE x \in S : \A y \in S : x <= y

isspace(c) == c \in {" ", "\t"}

\* no rstrip(): the string as it is
rstripNothing(s) == s

\* str.rstrip(): the string without its trailing whitespace
rstrip(s) ==
    LET keep == {i \in 1..Len(s) : ~isspace(s[i])}
    IN  IF keep = {} THEN <<>> ELSE SubSeq(s, 1, SetMax(keep))

\* str.strip(): the string without its leading and trailing whitespace
strip(s) ==
    LET keep == {i \in 1..Len(s) : ~isspace(s[i])}
    IN  IF keep = {} THEN <<>> ELSE SubSeq(s, SetMin(keep), SetMax(keep))

\* str.startswith(p), tried at position a: s[a:a+len(p)] == p
startswith(s, p, a) ==
    /\ a + Len(p) <= Len(s)
    /\ \A k \in 1..Len(p) : s[a + k] = p[k]

\* str.find(c, a): the first position >= a holding character c, or -1
find(s, c, a) ==
    LET hits == {i \in a..(Len(s) - 1) : At(s, i) = c}
    IN  IF hits = {} THEN -1 ELSE SetMin(hits)

\* str.split(c): the pieces between the occurrences of c ('' gives [''])
RECURSIVE split(_, _)
split(s, c) ==
    LET p == find(s, c, 0)
    IN  IF p < 0 THEN <<s>> ELSE <<Slice(s, 0, p)>> \o split(SliceFrom(s, p + 1), c)

\* sep.join(parts)
RECURSIVE join(_, _)
join(sep, parts) ==
    IF Len(parts) = 0 THEN <<>>
    ELSE IF Len(parts) = 1 THEN parts[1]
    ELSE parts[1] \o sep \o join(sep, Tail(parts))

\* c * n: n copies of character c
repeat(c, n) == [k \in 1..n |-> c]

\* the position reached by skipping whitespace from position a
\* (the loop of __skip_space, and a greedy \s* of the heading pattern)
skip_space(s, a) ==
    IF a >= Len(s) THEN a
    ELSE SetMin({i \in a..Len(s) : i = Len(s) \/ ~isspace(At(s, i))})

\* ------------------------------------------------------------ node classes

\* OrgNode.__init__: every node has text and children; the fields of the
\* subclasses are None (done, priority, name) or empty (tags) where a class
\* does not have them.  children holds the positions of the child nodes in
\* the variable tree.
OrgNode(cls, text) ==
    [cls |-> cls, text |-> text, children |-> <<>>,
     done |-> "None", priority |-> "None", tags |-> <<>>, name |-> None]

\* isinstance(child, childtype) in place of type(child) is childtype: a
\* directive passes for a comment, every node for an OrgNode
TypeIsInstance(cls, childtype) ==
    \/ cls = childtype
    \/ cls = "OrgDirectiveNode" /\ childtype = "OrgCommentNode"
    \/ childtype = "OrgNode"

\* type(child) is childtype, for the class names
TypeIs(cls, childtype) == cls = childtype

\* the loop of find_child_by_text over the children kids of a node of t: the
\* position in t of the child it returns, 0 when it falls off the loop and
\* the method returns None; childtype is a class name or "None"
RECURSIVE FindChild(_, _, _, _)
FindChild(t, kids, text, childtype) ==
    IF kids = <<>> THEN 0
    ELSE LET child == t[Head(kids)]
         IN  IF child.text # text
             THEN FindChild(t, Tail(kids), text, childtype)
             ELSE IF childtype # "None" /\ ~TypeIs(child.cls, childtype)
             THEN FindChild(t, Tail(kids), text, childtype)
             ELSE Head(kids)

\* OrgNode.find_child_by_text(text, childtype) of node n of t
find_child_by_text(t, n, text, childtype) == FindChild(t, t[n].children, text, childtype)

TODO == <<"T", "O", "D", "O">>

DONE == <<"D", "O", "N", "E">>

\* ((TODO|DONE)?\s+)? tried at position 0: [end, sdone]
RxKeyword(s) ==
    LET kw == IF startswith(s, DONE, 0) THEN "DONE"
              ELSE IF startswith(s, TODO, 0) THEN "TODO" ELSE "None"
    IN  IF kw # "None" /\ Len(s) > 4 /\ isspace(At(s, 4))
        THEN [end |-> skip_space(s, 4), sdone |-> kw]
        ELSE IF Len(s) > 0 /\ isspace(At(s, 0))
             THEN [end |-> skip_space(s, 0), sdone |-> "None"]
             ELSE [end |-> 0, sdone |-> "None"]

\* (\[#(A|B|C)\]\s+)? tried at position a: [end, spri]
RxPriority(s, a) ==
    IF /\ a + 4 < Len(s)
       /\ At(s, a) = "[" /\ At(s, a + 1) = "#" /\ At(s, a + 2) \in {"A", "B", "C"}
       /\ At(s, a + 3) = "]" /\ isspace(At(s, a + 4))
    THEN [end |-> skip_space(s, a + 4), spri |-> At(s, a + 2)]
    ELSE [end |-> a, spri |-> "None"]

\* \s*$ at position p
RxEnd(s, p) == \A i \in p..(Len(s) - 1) : isspace(At(s, i))

\* (:(\S*):) at position p with no \s*$ after it: a tag group anywhere
RxTagsUnanchored(s, p) ==
    IF p >= Len(s) \/ At(s, p) # ":" THEN -1
    ELSE LET e == SetMin({i \in (p + 1)..Len(s) : i = Len(s) \/ isspace(At(s, i))})
             q == e - 1
         IN  IF q > p /\ At(s, q) = ":" THEN q ELSE -1

\* (:(\S*):)\s*$ at position p: the position of the closing colon, or -1.
\* \S* takes the whole run of non-blanks after the opening colon and gives
\* back until a colon follows; what is left must be blank to the end, so
\* the closing colon is the last character of that run.
RxTags(s, p) ==
    IF p >= Len(s) \/ At(s, p) # ":" THEN -1
    ELSE LET e == SetMin({i \in (p + 1)..Len(s) : i = Len(s) \/ isspace(At(s, i))})
             q == e - 1
         IN  IF q > p /\ At(s, q) = ":" /\ RxEnd(s, e) THEN q ELSE -1

\* OrgHeadlineNode.__init__: the match of __RX_HEADLINE.  (.*?)? is lazy: it
\* ends at the first position where the tag group, or else the end, matches.
OrgHeadlineNodeFields(text) ==
    LET g1 == RxKeyword(text)
        g3 == RxPriority(text, g1.end)
        p  == SetMin({i \in g3.end..Len(text) : RxTags(text, i) >= 0 \/ RxEnd(text, i)})
        q  == RxTags(text, p)
    IN  [done     |-> IF g1.sdone = "DONE" THEN "True"
                      ELSE IF g1.sdone = "TODO" THEN "False" ELSE "None",
         priority |-> g3.spri,
         tags     |-> IF q >= 0 THEN split(Slice(text, p + 1, q), ":") ELSE <<>>,
         text     |-> strip(Slice(text, g3.end, p))]

OrgHeadlineNode(text) ==
    LET f == OrgHeadlineNodeFields(text)
    IN  [OrgNode("OrgHeadlineNode", f.text) EXCEPT
            !.done = f.done, !.priority = f.priority, !.tags = f.tags]

OrgTextNode(text) == OrgNode("OrgTextNode", text)

OrgCommentNode(text) == OrgNode("OrgCommentNode", text)

OrgDirectiveNode(text, name) ==
    [OrgNode("OrgDirectiveNode", text) EXCEPT !.name = name]

\* OrgHeadlineNode.__str__
OrgHeadlineNodeStr(node) ==
    (IF node.done = "None" THEN <<>>
     ELSE IF node.done = "False" THEN TODO \o <<" ">> ELSE DONE \o <<" ">>)
    \o (IF node.priority = "None" THEN <<>>
        ELSE <<"[", "#", node.priority, "]", " ">>)
    \o node.text
    \o (IF node.tags = <<>> THEN <<>>
        ELSE <<" ", ":">> \o join(<<":">>, node.tags) \o <<":">>)

\* OrgCommentNode.__str__
OrgCommentNodeStr(node) == <<"#", " ">> \o node.text

\* '#+%s %s' in place of '#+%s: %s': the colon left out
OrgDirectiveNodeStrNoColon(node) == <<"#", "+">> \o node.name \o <<" ">> \o node.text

\* OrgDirectiveNode.__str__
OrgDirectiveNodeStr(node) == <<"#", "+">> \o node.name \o <<":", " ">> \o node.text

\* str(node): the __str__ of the node's class (OrgNode.__str__ for a text node)
NodeStr(node) ==
    CASE node.cls = "OrgHeadlineNode"  -> OrgHeadlineNodeStr(node)
      [] node.cls = "OrgCommentNode"   -> OrgCommentNodeStr(node)
      [] node.cls = "OrgDirectiveNode" -> OrgDirectiveNodeStr(node)
      [] OTHER                         -> node.text

\* ------------------------------------------------------------ OrgParseIter

TokenInfo(type, line, value) == [type |-> type, line |-> line, value |-> value]

\* OrgParseIter.__init__
OrgParseIter ==
    [buf |-> None, buflen |-> 0, bufpos |-> 0, level |-> 0, oldlevel |-> 0,
     hold |-> <<>>, lineno |-> 0]

\* what __next__ hands to its caller: a token, or an exception
Return(self, tok) == [self |-> self, exc |-> "None", tok |-> tok]

Raise(self, exc) == [self |-> self, exc |-> exc, tok |-> TokenInfo("None", 0, None)]

\* hold.pop(0) in place of hold.pop(): the token appended first
HoldPopFirst(self) ==
    Return([self EXCEPT !.hold = Tail(@)], Head(self.hold))

\* hold.pop(): the token appended last
HoldPop(self) ==
    Return([self EXCEPT !.hold = SubSeq(@, 1, Len(@) - 1)], self.hold[Len(self.hold)])

\* a test of letters of either case: lowercase taken for a control word too
is_ctl_word_anycase(buf, frompos, topos) ==
    \A i \in frompos..(topos - 1) :
        At(buf, i) \notin {" ", "\t", ":", "+", "#", "*"}

\* __is_ctl_word(frompos, topos)
is_ctl_word(buf, frompos, topos) ==
    \A i \in frompos..(topos - 1) :
        At(buf, i) \in {"_", "A", "B", "C", "D", "E", "F", "G", "H", "I", "J", "K", "L", "M",
                        "N", "O", "P", "Q", "R", "S", "T", "U", "V", "W", "X", "Y", "Z"}

\* the run taken to go on to the first blank, whatever stands before it
StarRunToBlank(buf) ==
    SetMin({i \in 0..Len(buf) : i = Len(buf) \/ isspace(At(buf, i))})

\* the position after the run of "*" that begins the line
StarRun(buf) ==
    SetMin({i \in 0..Len(buf) : i = Len(buf) \/ At(buf, i) # "*"})

\* self.level = self.bufpos in place of self.level += 1: no limit on a jump
HeadLevelJump(level, bufpos) == bufpos

\* the level of a heading whose run of "*" ends at bufpos
HeadLevel(level, bufpos) ==
    IF bufpos > level THEN level + 1
    ELSE IF bufpos < level THEN bufpos
    ELSE level

\* the loop run while delta > 1: the HLEXIT that is returned at once counted
\* among the delta
HeadHoldOneLess(hold, headtkn, delta, lineno) ==
    hold \o <<headtkn>> \o [k \in 1..(delta - 1) |-> TokenInfo("HLEXIT", lineno, None)]

\* the heading appended after the delta HLEXIT: popped first
HeadHoldExitsFirst(hold, headtkn, delta, lineno) ==
    hold \o [k \in 1..delta |-> TokenInfo("HLEXIT", lineno, None)] \o <<headtkn>>

\* the loop run once more than delta: one HLEXIT too many on hold
HeadHoldOneMore(hold, headtkn, delta, lineno) ==
    hold \o <<headtkn>> \o [k \in 1..(delta + 1) |-> TokenInfo("HLEXIT", lineno, None)]

\* the tokens put on hold for a heading that does not go deeper: the
\* heading first, then delta HLEXIT
HeadHold(hold, headtkn, delta, lineno) ==
    hold \o <<headtkn>> \o [k \in 1..delta |-> TokenInfo("HLEXIT", lineno, None)]

\* a line that starts with "*"
ScanStars(self) ==
    LET run == StarRun(self.buf)
    IN  IF run >= self.buflen \/ ~isspace(At(self.buf, run))
        THEN Return([self EXCEPT !.bufpos = self.buflen],
                    TokenInfo("TEXT", self.lineno, self.buf))
        ELSE LET level   == HeadLevel(self.level, run)
                 pos     == skip_space(self.buf, run)
                 headtkn == TokenInfo("HEADLINE", self.lineno, SliceFrom(self.buf, pos))
                 me      == [self EXCEPT !.oldlevel = self.level, !.level = level,
                                         !.bufpos = self.buflen]
             IN  IF me.level <= me.oldlevel
                 THEN Return([me EXCEPT !.hold = HeadHold(@, headtkn,
                                                          me.oldlevel - me.level, me.lineno)],
                             TokenInfo("HLEXIT", me.lineno, None))
                 ELSE Return(me, headtkn)

\* the value of a COMMENT token: the line from the first non-blank after "#"
CommentValue(buf, bufpos0) == SliceFrom(buf, skip_space(buf, bufpos0))

\* the test that opens the directive scan, with bufpos = 1:
\* self.bufpos < self.buflen + 3 and self.buf[self.bufpos] == '+'
\* "IndexError" when it reads buf[bufpos] beyond the end of the line
DirectiveSigil(buf, buflen, bufpos) ==
    IF ~(bufpos < buflen + 3) THEN "False"
    ELSE IF bufpos >= Len(buf) THEN "IndexError"
    ELSE IF At(buf, bufpos) = "+" THEN "True" ELSE "False"

\* self.buf[colonpos + 1:] without .strip()
DirectiveArgsRaw(buf, colonpos) == SliceFrom(buf, colonpos + 1)

\* the value of the TEXT token put on hold behind a DIRECTIVE token
DirectiveArgs(buf, colonpos) == strip(SliceFrom(buf, colonpos + 1))

\* a line that starts with "#"
ScanHash(self) ==
    LET bufpos0  == 1
        sigil    == DirectiveSigil(self.buf, self.buflen, bufpos0)
        colonpos == find(self.buf, ":", bufpos0 + 1)
        comment  == Return([self EXCEPT !.bufpos = self.buflen],
                           TokenInfo("COMMENT", self.lineno, CommentValue(self.buf, bufpos0)))
    IN  IF sigil = "IndexError"
        THEN Raise([self EXCEPT !.bufpos = bufpos0], "IndexError")
        ELSE IF /\ sigil = "True"
                /\ bufpos0 + 1 < self.buflen
                /\ colonpos >= 0
                /\ is_ctl_word(self.buf, bufpos0 + 1, colonpos)
        THEN Return([self EXCEPT
                        !.hold = Append(@, TokenInfo("TEXT", self.lineno,
                                                     DirectiveArgs(self.buf, colonpos))),
                        !.bufpos = self.buflen],
                    TokenInfo("DIRECTIVE", self.lineno,
                              Slice(self.buf, bufpos0 + 1, colonpos)))
        ELSE comment

\* __next__ from the test of buflen on: the token of the line in buf
ScanLine(self) ==
    IF self.buflen = 0 THEN Return(self, TokenInfo("TEXT", self.lineno, <<>>))
    ELSE IF At(self.buf, 0) = "*" THEN ScanStars(self)
    ELSE IF At(self.buf, 0) = "#" THEN ScanHash(self)
    ELSE Return([self EXCEPT !.bufpos = self.buflen],
                TokenInfo("TEXT", self.lineno, SliceFrom(self.buf, self.bufpos)))

\* the line read from the file: right-trimmed, counted, scanned from 0
ReadLine(self, raw) ==
    [self EXCEPT !.buf = rstrip(raw), !.lineno = @ + 1,
                 !.buflen = Len(rstrip(raw)), !.bufpos = 0]

\* the file asked before the tokens on hold are looked at, and its
\* StopIteration passed on at once
OrgNextFileFirst(self, src) ==
    IF src = None THEN Raise(self, "StopIteration")
    ELSE IF self.hold # <<>> THEN HoldPop(self)
    ELSE ScanLine(ReadLine(self, src))

\* next(self.fileobj) fails: an exception that is not StopIteration
OSError == <<"OSError">>

\* OrgParseIter.__next__; src is the line next(self.fileobj) gives, None
\* when the file raises StopIteration, OSError when the read fails: the try
\* around the read has a handler for StopIteration alone
OrgNext(self, src) ==
    IF self.hold # <<>> THEN HoldPop(self)
    ELSE IF self.buf = None \/ self.bufpos >= self.buflen
    THEN IF src = None
         THEN IF self.hold # <<>> THEN HoldPop(self) ELSE Raise(self, "StopIteration")
         ELSE IF src = OSError THEN Raise(self, "OSError")
         ELSE ScanLine(ReadLine(self, src))
    ELSE ScanLine(self)

\* ------------------------------------------------------------ MinimalOrgParser

\* destnode.children.append(node): the node goes to the end of tree and its
\* position to the end of the children of destnode
Attach(t, destnode, node) ==
    Append([t EXCEPT ![destnode].children = Append(@, Len(t) + 1)], node)

\* a call of parse_block(destnode, level) with its locals
Frame(destnode, level) ==
    [destnode |-> destnode, level |-> level, prefix |-> "None", dname |-> None]

\* the node a TEXT token makes in a frame
TextTokenNode(frame, nfo) ==
    IF frame.prefix = "DIRECTIVE"
    THEN OrgDirectiveNode(nfo.value, frame.dname)
    ELSE OrgTextNode(nfo.value)

\* continue in place of break: the call stays open
ExitFrameStay(frames) == frames

\* break: the innermost parse_block returns to its caller
ExitFrame(frames) == SubSeq(frames, 1, Len(frames) - 1)

\* prefix left as it is after a TEXT token
PrefixKept(frames) == frames

\* prefix = None in the innermost frame
PrefixCleared(frames) == [frames EXCEPT ![Len(frames)].prefix = "None"]

\* one turn of the loop of parse_block in the innermost frame, for token
\* nfo: the frames and the tree after it
ParseBlock(frames, t, nfo) ==
    LET top   == Len(frames)
        frame == frames[top]
    IN  CASE nfo.type = "HEADLINE" ->
                [stack |-> Append(frames, Frame(Len(t) + 1, frame.level + 1)),
                 tree  |-> Attach(t, frame.destnode, OrgHeadlineNode(nfo.value))]
          [] nfo.type = "HLEXIT" ->
                [stack |-> ExitFrame(frames), tree |-> t]
          [] nfo.type = "COMMENT" ->
                [stack |-> frames,
                 tree  |-> Attach(t, frame.destnode, OrgCommentNode(nfo.value))]
          [] nfo.type = "DIRECTIVE" ->
                [stack |-> [frames EXCEPT ![top].prefix = nfo.type,
                                          ![top].dname = nfo.value],
                 tree  |-> t]
          [] nfo.type = "TEXT" ->
                [stack |-> PrefixCleared(frames),
                 tree  |-> Attach(t, frame.destnode, TextTokenNode(frame, nfo))]

\* except Exception in place of except StopIteration
InitCatchesAny(exc) == TRUE

\* the handler of the try in __init__: except StopIteration: pass
InitCatches(exc) == exc = "StopIteration"

\* how __init__ ends when exception exc leaves parse_block(self, 0): "done"
\* when its handler takes it, else the exception goes to the caller ("fault"
\* stands for the IndexError of the scanner)
InitOutcome(exc) ==
    IF InitCatches(exc) THEN "done"
    ELSE IF exc = "IndexError" THEN "fault"
    ELSE exc

\* '*' * (level + 1): the marker run of the level below
DumpPrefixDeeper(node, level) ==
    IF node.cls = "OrgHeadlineNode" THEN repeat("*", level + 1) \o <<" ">> ELSE <<>>

\* the marker run __dumps_node puts before a heading at a level
DumpPrefix(node, level) ==
    IF node.cls = "OrgHeadlineNode" THEN repeat("*", level) \o <<" ">> ELSE <<>>

\* MinimalOrgParser.__dumps_node: DumpBuf is buf after the loop over the
\* children kids, DumpsNode its lines joined
RECURSIVE DumpBuf(_, _, _)
DumpBuf(t, kids, level) ==
    IF kids = <<>> THEN <<>>
    ELSE LET child == t[Head(kids)]
         IN  <<DumpPrefix(child, level) \o NodeStr(child)>>
             \o (IF child.children # <<>>
                 THEN <<join(<<"\n">>, DumpBuf(t, child.children, level + 1))>>
                 ELSE <<>>)
             \o DumpBuf(t, Tail(kids), level)

DumpsNode(t, n, level) == join(<<"\n">>, DumpBuf(t, t[n].children, level))

\* MinimalOrgParser.dumps(level); the parser itself is tree[1]
dumps(t, level) == DumpsNode(t, 1, level)

\* MinimalOrgParser.__init__ run to its end on a file that holds the lines
\* rest: the calls next(orgiter) of the for loop of the innermost parse_block,
\* one after the other, until the outermost parse_block has returned or an
\* exception has left __init__; [pc, tree] as in the state below
RECURSIVE ParseRun(_, _, _, _)
ParseRun(self, frames, t, rest) ==
    IF frames = <<>> THEN [pc |-> "done", tree |-> t]
    ELSE LET r == OrgNext(self, IF rest = <<>> THEN None ELSE Head(rest))
         IN  IF r.exc = "StopIteration"
             THEN ParseRun(r.self, SubSeq(frames, 1, Len(frames) - 1), t, rest)
             ELSE IF r.exc # "None"
             THEN [pc |-> InitOutcome(r.exc), tree |-> t]
             ELSE LET b == ParseBlock(frames, t, r.tok)
                  IN  ParseRun(r.self, b.stack, b.tree,
                               IF r.self.lineno > self.lineno THEN Tail(rest) ELSE rest)

\* MinimalOrgParser(filename) for a file with the lines ls
MinimalOrgParser(ls) ==
    ParseRun(OrgParseIter, <<Frame(1, 0)>>, <<OrgNode("MinimalOrgParser", <<"f">>)>>, ls)

\* ------------------------------------------------------------ the input

\* the most lines a file of the varied vocabulary holds
MaxLines == 4

\* the most lines a file of the vocabulary of the worked example holds
MaxExampleLines == 5

\* "* Top", "** Sub", "text1", "* Next", "#+NAME: foo": the worked example
LTop == <<"*", " ", "T", "o", "p">>

LSub == <<"*", "*", " ", "S", "u", "b">>

LText1 == <<"t", "e", "x", "t", "1">>

LNext == <<"*", " ", "N", "e", "x", "t">>

LName == <<"#", "+", "N", "A", "M", "E", ":", " ", "f", "o", "o">>

Example == <<LTop, LSub, LText1, LNext, LName>>

ExampleLines == {LTop, LSub, LText1, LNext, LName}

\* lines of every kind the scanner tells apart, as the file gives them
\* (before rstrip)
Lines ==
    { <<"*", " ", "T">>,                      \* heading, run 1
      <<"*", "*", " ", " ", "S", " ">>,       \* heading, run 2, blanks around
      <<"*", "*", "*", " ", "U">>,            \* heading, run 3
      <<"*", "*">>,                           \* stars and nothing after
      <<"t">>,                                \* text
      <<" ">>,                                \* blank line
      <<"#">>,                                \* the marker alone
      <<"#", " ", " ", "c">>,                 \* comment, two blanks
      <<"#", "+", "N", ":", "f">>,            \* directive
      <<"#", "+", "n", ":", " ", "f">>,       \* lowercase control word
      <<"#", "+", "N">> }                     \* no colon

\* the longest title of the one-heading files
MaxTitle == 5

TitleChars == {"x", " ", ":"}

Titles == UNION {[1..n -> TitleChars] : n \in 1..MaxTitle}

\* heading lines with every title over TitleChars, and three written out:
\* "* Do it :work:urgent:", "* x ::y:" and "* DONE [#A] x :a:"
TitleLines ==
    {<<"*", " ">> \o t : t \in Titles}
    \cup { <<"*", " ", "D", "o", " ", "i", "t", " ", ":", "w", "o", "r", "k", ":",
             "u", "r", "g", "e", "n", "t", ":">>,
           <<"*", " ", "x", " ", ":", ":", "y", ":">>,
           <<"*", " ", "D", "O", "N", "E", " ", "[", "#", "A", "]", " ", "x", " ",
             ":", "a", ":">> }

\* the most lines of a file with "*" lines that are no headings
MaxStarLines == 3

\* headings of two levels, a "*" run with text right after it, a line of "*"
\* alone, and a plain text line
StarLines ==
    { <<"*", " ", "T">>,
      <<"*", "*", " ", "S">>,
      <<"*", "x", " ", "y">>,
      <<"*", "*">>,
      <<"t">> }

\* the most lines of a file whose tree is searched
MaxFindLines == 3

\* lines that give nodes of every class with the same text, in either case,
\* and children below a heading
FindLines ==
    { <<"a">>,
      <<"A">>,
      <<"#", " ", "a">>,
      <<"#", "+", "N", ":", " ", "a">>,
      <<"*", " ", "a">>,
      <<"*", " ", "b">> }

\* the texts and the classes find_child_by_text is asked for
FindTexts == {<<"a">>, <<"A">>, <<"b">>}

FindTypes ==
    {"None", "OrgNode", "OrgHeadlineNode", "OrgTextNode", "OrgCommentNode", "OrgDirectiveNode"}

\* ------------------------------------------------------------ the state

VARIABLES
    fileobj,    \* the line source: the lines it may give (vocab), how many
                \* it still holds at most (left), whether it has ended (eof)
    orgiter,    \* the OrgParseIter
    stack,      \* the open calls of parse_block, outermost first
    tree,       \* the nodes made so far; tree[1] is the MinimalOrgParser
    pc,         \* "run" while __init__ parses, "done" after it returned,
                \* "fault" after the scanner's IndexError left it, "OSError"
                \* after a failure of the line source left it
    lines,      \* history: the lines read from the file
    emitted,    \* history: the tokens __next__ returned
    lvlhist,    \* history: orgiter.level after each line read
    nodeline,   \* history: for each node of tree, the line of its token
    stops,      \* history: how often __next__ raised StopIteration
    srcexc,     \* history: the failure the line source raised, "None" if none
    call        \* the last call of a method of the finished tree, with what
                \* it returned

vars ==
    <<fileobj, orgiter, stack, tree, pc, lines, emitted, lvlhist, nodeline, stops, srcexc,
      call>>

NoCall == [op |-> "None", self |-> 0, text |-> None, childtype |-> "None", ret |-> 0]

FileOver(vocab, n) == [vocab |-> vocab, left |-> n, eof |-> FALSE]

\* MinimalOrgParser.__init__ up to the first call parse_block(self, 0), on
\* one of the files
InitOn(files) ==
    /\ fileobj \in files
    /\ orgiter = OrgParseIter
    /\ stack = <<Frame(1, 0)>>
    /\ tree = <<OrgNode("MinimalOrgParser", <<"f">>)>>
    /\ pc = "run"
    /\ lines = <<>>
    /\ emitted = <<>>
    /\ lvlhist = <<>>
    /\ nodeline = <<0>>
    /\ stops = 0
    /\ srcexc = "None"
    /\ call = NoCall

Init ==
    InitOn({FileOver(Lines, MaxLines), FileOver(ExampleLines, MaxExampleLines),
            FileOver(TitleLines, 1), FileOver(StarLines, MaxStarLines)})

\* the innermost parse_block takes token r.tok from __next__
Deliver(r) ==
    LET b == ParseBlock(stack, tree, r.tok)
    IN  /\ orgiter' = r.self
        /\ stack' = b.stack
        /\ tree' = b.tree
        /\ nodeline' = IF Len(b.tree) > Len(tree) THEN Append(nodeline, r.tok.line)
                                                  ELSE nodeline
        /\ emitted' = Append(emitted, r.tok)
        /\ pc' = IF b.stack = <<>> THEN "done" ELSE "run"

\* next(orgiter) returns a token without reading the file: one on hold
NextHeld ==
    /\ pc = "run"
    /\ LET r == OrgNext(orgiter, None)
       IN  /\ r.exc = "None"
           /\ Deliver(r)
    /\ UNCHANGED <<fileobj, lines, lvlhist, stops, srcexc, call>>

\* next(orgiter) reads a line and returns its first token
NextLine ==
    /\ pc = "run"
    /\ ~fileobj.eof /\ fileobj.left > 0
    /\ \E raw \in fileobj.vocab :
          LET r == OrgNext(orgiter, raw)
          IN  /\ r.self.lineno = orgiter.lineno + 1
              /\ r.exc = "None"
              /\ Deliver(r)
              /\ lines' = Append(lines, raw)
              /\ lvlhist' = Append(lvlhist, r.self.level)
    /\ fileobj' = [fileobj EXCEPT !.left = @ - 1]
    /\ UNCHANGED <<stops, srcexc, call>>

\* next(orgiter) reads a line and raises IndexError, which no frame and
\* not __init__ catches: the frames are left, no parser object is made
NextFault ==
    /\ pc = "run"
    /\ ~fileobj.eof /\ fileobj.left > 0
    /\ \E raw \in fileobj.vocab :
          LET r == OrgNext(orgiter, raw)
          IN  /\ r.self.lineno = orgiter.lineno + 1
              /\ r.exc = "IndexError"
              /\ orgiter' = r.self
              /\ lines' = Append(lines, raw)
    /\ fileobj' = [fileobj EXCEPT !.left = @ - 1]
    /\ stack' = <<>>
    /\ pc' = InitOutcome("IndexError")
    /\ UNCHANGED <<tree, emitted, lvlhist, nodeline, stops, srcexc, call>>

\* next(orgiter) asks the file for a line and the read fails: the exception
\* leaves __next__, the for loops of all open parse_block calls (a for loop
\* ends on StopIteration alone) and reaches the try of __init__
NextReadError ==
    /\ pc = "run"
    /\ ~fileobj.eof
    /\ LET r == OrgNext(orgiter, OSError)
       IN  /\ r.exc = "OSError"
           /\ orgiter' = r.self
           /\ pc' = InitOutcome(r.exc)
           /\ srcexc' = r.exc
    /\ stack' = <<>>
    /\ UNCHANGED <<fileobj, tree, lines, emitted, lvlhist, nodeline, stops, call>>

\* the file has no more lines: next(orgiter) raises StopIteration, which
\* ends the for loop of the innermost parse_block; that call returns, and
\* after the outermost one __init__ does
NextStop ==
    /\ pc = "run"
    /\ LET r == OrgNext(orgiter, None)
       IN  /\ r.exc = "StopIteration"
           /\ orgiter' = r.self
    /\ fileobj' = [fileobj EXCEPT !.eof = TRUE]
    /\ stack' = SubSeq(stack, 1, Len(stack) - 1)
    /\ pc' = IF Len(stack) = 1 THEN "done" ELSE "run"
    /\ stops' = stops + 1
    /\ UNCHANGED <<tree, lines, emitted, lvlhist, nodeline, srcexc, call>>

Next == NextHeld \/ NextLine \/ NextFault \/ NextReadError \/ NextStop

Spec == Init /\ [][Next]_vars

\* a caller asks a node of the finished tree for a child by text
CallFindChild ==
    /\ pc = "done"
    /\ \E n \in 1..Len(tree), text \in FindTexts, childtype \in FindTypes :
          call' = [op |-> "find_child_by_text", self |-> n, text |-> text,
                   childtype |-> childtype,
                   ret |-> find_child_by_text(tree, n, text, childtype)]
    /\ UNCHANGED <<fileobj, orgiter, stack, tree, pc, lines, emitted, lvlhist, nodeline,
                   stops, srcexc>>

\* files of FindLines parsed to their end, and then searched
InitFind == InitOn({FileOver(FindLines, MaxFindLines)})

NextFind == NextHeld \/ NextLine \/ NextStop \/ CallFindChild

SpecFind == InitFind /\ [][NextFind]_vars

\* ------------------------------------------------------------ reading the histories

\* line i as the scanner sees it
Buf(i) == rstrip(lines[i])

\* the number of "*" that begin b
MarkerRun(b) ==
    Cardinality({n \in 1..Len(b) : \A k \in 1..n : b[k] = "*"})

\* b is a heading line: a run of "*", then whitespace
IsHeading(b) ==
    /\ MarkerRun(b) > 0
    /\ MarkerRun(b) < Len(b)
    /\ isspace(b[MarkerRun(b) + 1])

\* the lines whose first token has been returned
Scanned == 1..Len(lvlhist)

LevelBefore(i) == IF i = 1 THEN 0 ELSE lvlhist[i - 1]

\* the positions in emitted of the tokens of a type from line i
TokensAt(type, i) ==
    {p \in 1..Len(emitted) : emitted[p].type = type /\ emitted[p].line = i}

\* the types of the tokens of line i, in the order they were returned
TypesOf(i) ==
    LET toks == SelectSeq(emitted, LAMBDA t : t.line = i)
    IN  [k \in 1..Len(toks) |-> toks[k].type]

\* every token of line i has been returned
Finished(i) == i < Len(lvlhist) \/ orgiter.hold = <<>>

\* the parent of node n, and its depth below the parser
Parent(n) ==
    CHOOSE q \in 1..Len(tree) : \E k \in 1..Len(tree[q].children) : tree[q].children[k] = n

RECURSIVE Depth(_)
Depth(n) == IF n = 1 THEN 0 ELSE 1 + Depth(Parent(n))

\* a subtree as nested tuples: class, text, name, children
RECURSIVE Shape(_, _)
Shape(t, n) ==
    <<t[n].cls, t[n].text, t[n].name,
      [k \in 1..Len(t[n].children) |-> Shape(t, t[n].children[k])]>>

\* ------------------------------------------------------------ claims

\* C1: no call of __next__ faults, whatever the lines are: parsing never
\* ends with an exception other than StopIteration.
C1_NeverFaults == pc # "fault"

\* C2, as claimed: a heading line that moves the level from k to a
\* shallower j has exactly k - j HLEXIT tokens before its HEADLINE token.
C2_ClosesEqualDrop ==
    \A i \in Scanned :
        (TokensAt("HEADLINE", i) # {} /\ lvlhist[i] < LevelBefore(i))
            => Cardinality(TokensAt("HLEXIT", i)) = LevelBefore(i) - lvlhist[i]

\* C2, amended: a heading line that moves the level from k to a shallower
\* j has exactly (k - j) + 1 HLEXIT tokens, and they sit between the last
\* token of the line before and the HEADLINE token of the line; for "* Top",
\* "** Sub", "text1", "* Next" there are two between the TEXT token of text1
\* and the HEADLINE token of Next.
C2_ClosesEqualDropPlusOne ==
    /\ \A i \in Scanned : \A p \in TokensAt("HEADLINE", i) :
          lvlhist[i] < LevelBefore(i) =>
              LET n == (LevelBefore(i) - lvlhist[i]) + 1
              IN  /\ TokensAt("HLEXIT", i) = (p - n)..(p - 1)
                  /\ p - n >= 2
                  /\ emitted[p - n - 1].line = i - 1
    /\ (Len(lines) >= 4 /\ SubSeq(lines, 1, 4) = SubSeq(Example, 1, 4) /\ Len(emitted) >= 6)
          => SubSeq(emitted, 3, 6) =
                <<TokenInfo("TEXT", 3, LText1), TokenInfo("HLEXIT", 4, None),
                  TokenInfo("HLEXIT", 4, None), TokenInfo("HEADLINE", 4, <<"N", "e", "x", "t">>)>>

\* C2 happens: a heading that moves the level up by two has been returned
C2_Witness ==
    \E i \in Scanned :
        TokensAt("HEADLINE", i) # {} /\ LevelBefore(i) - lvlhist[i] >= 2

\* C3: a heading node sits at the depth that is the level of its line, below
\* the heading of the level before it (or the parser); when no token is on
\* hold, the calls of parse_block below the outermost are as many as the
\* level; the worked example gives
\* root -> [Top -> [Sub -> [text1]], Next -> [Directive NAME foo]].
C3_DepthIsLevel ==
    /\ \A n \in 2..Len(tree) :
          tree[n].cls = "OrgHeadlineNode" =>
              /\ Depth(n) = lvlhist[nodeline[n]]
              /\ \/ Parent(n) = 1 /\ Depth(n) = 1
                 \/ /\ tree[Parent(n)].cls = "OrgHeadlineNode"
                    /\ lvlhist[nodeline[Parent(n)]] = Depth(n) - 1
    /\ (pc = "run" /\ ~fileobj.eof /\ orgiter.hold = <<>>)
          => Len(stack) - 1 = orgiter.level
    /\ (pc = "done" /\ lines = Example) =>
          Shape(tree, 1)[4] =
            << <<"OrgHeadlineNode", <<"T", "o", "p">>, None,
                 << <<"OrgHeadlineNode", <<"S", "u", "b">>, None,
                      << <<"OrgTextNode", LText1, None, <<>> >> >> >> >> >>,
               <<"OrgHeadlineNode", <<"N", "e", "x", "t">>, None,
                 << <<"OrgDirectiveNode", <<"f", "o", "o">>, <<"N", "A", "M", "E">>, <<>> >> >> >> >>

\* C3 happens: the worked example has been parsed to its end
C3_Witness == pc = "done" /\ lines = Example

\* the level the claim gives a heading of run r after level prev
C4Level(prev, r) ==
    IF r > prev THEN prev + 1 ELSE IF r < prev THEN r ELSE prev

\* C4: after a heading line of run r the level is the one before + 1 if r is
\* larger, r if r is smaller, the same if r is equal (and the same after a
\* line that is no heading); so the level never goes up by more than 1, is
\* at least 1 after the first heading and at most the number of headings.
C4_LevelLaw ==
    \A i \in Scanned :
        LET headings == {k \in 1..i : IsHeading(Buf(k))}
        IN  /\ lvlhist[i] = IF IsHeading(Buf(i))
                            THEN C4Level(LevelBefore(i), MarkerRun(Buf(i)))
                            ELSE LevelBefore(i)
            /\ lvlhist[i] <= LevelBefore(i) + 1
            /\ headings # {} => lvlhist[i] >= 1
            /\ lvlhist[i] <= Cardinality(headings)
            /\ i = Len(lvlhist) => orgiter.level = lvlhist[i]

\* C4 happens: a heading whose run is at least two more than the level
C4_Witness ==
    \E i \in Scanned :
        IsHeading(Buf(i)) /\ MarkerRun(Buf(i)) >= LevelBefore(i) + 2

\* C5: the tokens of a heading line that does not go deeper are one or more
\* HLEXIT and then one HEADLINE, which is the last; tokens come in the order
\* of their lines, so none of a later line is among them.
C5_ClosesFirstHeadingLast ==
    /\ \A i \in Scanned :
          (IsHeading(Buf(i)) /\ lvlhist[i] <= LevelBefore(i)) =>
              LET ty == TypesOf(i)
              IN  /\ Len(ty) >= 1
                  /\ ty[1] = "HLEXIT"
                  /\ \A k \in 1..Len(ty) :
                        \/ ty[k] = "HLEXIT" /\ (k < Len(ty) \/ ~Finished(i))
                        \/ ty[k] = "HEADLINE" /\ k = Len(ty) /\ k > 1
                  /\ Finished(i) => ty[Len(ty)] = "HEADLINE"
    /\ \A p \in 1..(Len(emitted) - 1) : emitted[p].line <= emitted[p + 1].line

\* C5 happens: a heading line that closes two or more subtrees is finished
C5_Witness ==
    \E i \in Scanned :
        /\ IsHeading(Buf(i)) /\ lvlhist[i] <= LevelBefore(i) /\ Finished(i)
        /\ Len(TypesOf(i)) >= 3

\* the line is "#+", a word of capital letters and "_", and ":"
IsDirective(b) ==
    /\ startswith(b, <<"#", "+">>, 0)
    /\ \E c \in 2..(Len(b) - 1) :
          /\ At(b, c) = ":"
          /\ \A k \in 2..(c - 1) :
                At(b, k) \in {"_", "A", "B", "C", "D", "E", "F", "G", "H", "I", "J", "K", "L",
                              "M", "N", "O", "P", "Q", "R", "S", "T", "U", "V", "W", "X", "Y",
                              "Z"}

\* what follows the first ":" of b, trimmed
AfterColon(b) == strip(SliceFrom(b, find(b, ":", 0) + 1))

\* C6: a DIRECTIVE token is followed at once by the TEXT token of the same
\* line whose value is what follows the first colon, trimmed; while that
\* token is still to come it is the one token on hold and the parse goes
\* on, so no stream of tokens ends with a DIRECTIVE.
C6_DirectiveThenText ==
    \A p \in 1..Len(emitted) :
        emitted[p].type = "DIRECTIVE" =>
            LET i   == emitted[p].line
                txt == TokenInfo("TEXT", i, AfterColon(Buf(i)))
            IN  IF p < Len(emitted) THEN emitted[p + 1] = txt
                ELSE pc = "run" /\ orgiter.hold = <<txt>>

\* C6 happens: a DIRECTIVE token and the token after it have been returned
C6_Witness ==
    \E p \in 1..(Len(emitted) - 1) :
        emitted[p].type = "DIRECTIVE" /\ emitted[p + 1].type = "TEXT"

\* the lines of a dump
DumpLines(d) == split(d, "\n")

\* C7, as claimed: the dump of the parsed tree gives the lines of the input
\* back, trailing whitespace trimmed: a heading with the marker run it had,
\* a comment or directive line and a text line as they were.
C7_RoundTrip ==
    (pc = "done" /\ lines # <<>>) =>
        LET out == DumpLines(dumps(tree, 1))
        IN  /\ Len(out) = Len(lines)
            /\ \A i \in 1..Len(lines) :
                  IF IsHeading(Buf(i))
                  THEN MarkerRun(out[i]) = MarkerRun(Buf(i))
                  ELSE out[i] = Buf(i)

\* the line the dump has for input line i
Rendering(i) ==
    LET b == Buf(i)
    IN  IF IsHeading(b)
        THEN repeat("*", lvlhist[i]) \o <<" ">>
             \o OrgHeadlineNodeStr(OrgHeadlineNode(strip(SliceFrom(b, MarkerRun(b)))))
        ELSE IF Len(b) > 0 /\ b[1] = "#"
        THEN IF IsDirective(b)
             THEN Slice(b, 0, find(b, ":", 0)) \o <<":", " ">> \o AfterColon(b)
             ELSE <<"#", " ">> \o emitted[CHOOSE p \in TokensAt("COMMENT", i) : TRUE].value
        ELSE b

\* C7, amended: the dump of the tree (of the tree so far, at any time) has
\* one line for each node, in the order of the input lines: a text line as
\* it was, right-trimmed; a heading as a marker run as long as the level the
\* tokenizer gave it, one blank, and its keyword, priority, title and tags
\* joined again; a comment as "# " and the value of its COMMENT token; a
\* directive as "#+NAME: " and its trimmed arguments.
\* When the parse is done there is one such line for every input line.
C7_DumpIsRendering ==
    /\ dumps(tree, 1) =
          join(<<"\n">>, [n \in 1..(Len(tree) - 1) |-> Rendering(nodeline[n + 1])])
    /\ pc = "done" => nodeline = [n \in 1..(Len(lines) + 1) |-> n - 1]

\* C7 happens: a parse is done whose input had a heading with a longer run
\* than its level and a line that starts with "#"
C7_Witness ==
    /\ pc = "done"
    /\ \E i \in 1..Len(lines) : IsHeading(Buf(i)) /\ MarkerRun(Buf(i)) > lvlhist[i]
    /\ \E i \in 1..Len(lines) : Len(Buf(i)) > 1 /\ Buf(i)[1] = "#"

\* C8: a "#+" line gives a DIRECTIVE token only if what stands between "+"
\* and the first ":" is capital letters and "_"; with anything else there,
\* or with no ":", it gives one COMMENT token, no DIRECTIVE, and leaves
\* nothing on hold.
C8_DirectiveNeedsCtlWord ==
    \A i \in Scanned :
        startswith(Buf(i), <<"#", "+">>, 0) =>
            /\ TokensAt("DIRECTIVE", i) # {} => IsDirective(Buf(i))
            /\ ~IsDirective(Buf(i)) =>
                  /\ TypesOf(i) = <<"COMMENT">>
                  /\ i = Len(lvlhist) => orgiter.hold = <<>>

\* C8 happens: a "#+" line with a colon and a lowercase word was scanned
C8_Witness ==
    \E i \in Scanned :
        /\ startswith(Buf(i), <<"#", "+">>, 0)
        /\ find(Buf(i), ":", 0) > 2
        /\ ~IsDirective(Buf(i))
        /\ TypesOf(i) = <<"COMMENT">>

\* C9: the value of a COMMENT token is the line after the marker with at
\* most one blank removed; further blanks stay in the value.
C9_CommentKeepsIndent ==
    \A p \in 1..Len(emitted) :
        emitted[p].type = "COMMENT" =>
            LET rest == SliceFrom(Buf(emitted[p].line), 1)
            IN  emitted[p].value =
                    IF rest # <<>> /\ isspace(rest[1]) THEN Tail(rest) ELSE rest

\* C10: StopIteration is raised only with nothing on hold and the file at
\* its end; from then on every call raises it again, returns no token and
\* ends one call of parse_block without a new node, and the return of the
\* outermost call ends the parse without a fault.
C10_EndIsNormal ==
    /\ [](fileobj.eof /\ pc = "run" => ENABLED NextStop)
    /\ [][/\ stops' > stops => (orgiter.hold = <<>> /\ fileobj'.eof)
          /\ fileobj.eof =>
                /\ stops' = stops + 1
                /\ emitted' = emitted
                /\ tree' = tree
                /\ stack' = SubSeq(stack, 1, Len(stack) - 1)
                /\ pc' = IF stack' = <<>> THEN "done" ELSE "run"]_vars

\* C10 happens: the file ended below two headings and the parse is done
C10_Witness == pc = "done" /\ stops >= 3 /\ fileobj.eof

\* C11: a failure of the line source reaches the caller of the parse as it
\* was raised: the parse ends with that exception, not with a tree, every
\* call of parse_block is left, and nothing was read or returned after it.
C11_ReadFailureReachesCaller ==
    /\ srcexc # "None" =>
          /\ pc = srcexc
          /\ stack = <<>>
          /\ orgiter.lineno = Len(lines)
          /\ Len(lvlhist) = Len(lines)
    /\ pc \notin {"run", "done", "fault"} => pc = srcexc

\* C11 happens: the read failed below two open headings
C11_Witness == srcexc = "OSError" /\ orgiter.level >= 2 /\ Len(tree) >= 3

\* C12: find_child_by_text returns the first child of the node, in the order
\* of children, whose text is the text asked for and, when a class is given,
\* whose class is that very class; None (0) when the node has no such child,
\* whatever lies deeper; the call leaves the tree as it was.
C12_FindFirstChild ==
    /\ [](call.op = "find_child_by_text" =>
            LET kids == tree[call.self].children
                hits == {k \in 1..Len(kids) :
                            /\ tree[kids[k]].text = call.text
                            /\ call.childtype \in {"None", tree[kids[k]].cls}}
            IN  IF hits = {} THEN call.ret = 0
                ELSE call.ret = kids[SetMin(hits)])
    /\ [][call' # call => tree' = tree]_vars

\* C12 happens: None was returned though a node below a child has the text,
\* and a directive child with that text was passed over for the class
\* OrgCommentNode
C12_Witness ==
    /\ call.op = "find_child_by_text" /\ call.ret = 0 /\ call.self = 1
    /\ call.childtype = "OrgCommentNode"
    /\ \E m \in 2..Len(tree) : tree[m].text = call.text /\ Parent(m) # 1
    /\ \E k \in 1..Len(tree[1].children) :
          /\ tree[tree[1].children[k]].text = call.text
          /\ tree[tree[1].children[k]].cls = "OrgDirectiveNode"

\* p starts a tag group of the raw title t: a colon, then no blank up to the
\* end of t, which is another colon
TagGroupAt(t, p) ==
    /\ p < Len(t) - 1
    /\ At(t, p) = ":" /\ At(t, Len(t) - 1) = ":"
    /\ \A i \in p..(Len(t) - 1) : ~isspace(At(t, i))

\* the raw title t starts with a keyword or a priority cookie
HasCookie(t) ==
    startswith(t, TODO, 0) \/ startswith(t, DONE, 0) \/ startswith(t, <<"[", "#">>, 0)

\* C13: a heading node whose raw title ends in a tag group has as tags the
\* strings between the colons of the group, in order, the empty ones too, and
\* as title what stands before the group, trimmed; a title with no tag group
\* at its end, whatever colons it has elsewhere, has no tags and is the title.
C13_TagsAtLineEnd ==
    \A n \in 2..Len(tree) :
        tree[n].cls = "OrgHeadlineNode" =>
            LET t == emitted[CHOOSE k \in TokensAt("HEADLINE", nodeline[n]) : TRUE].value
                starts == {p \in 0..(Len(t) - 1) : TagGroupAt(t, p)}
                p == IF starts = {} THEN Len(t) ELSE SetMin(starts)
                inner == Slice(t, p + 1, Len(t) - 1)
                tags == tree[n].tags
            IN  /\ ~HasCookie(t) => tree[n].text = strip(Slice(t, 0, p))
                /\ starts = {} => tags = <<>>
                /\ starts # {} =>
                      /\ join(<<":">>, tags) = inner
                      /\ Len(tags) = 1 + Cardinality({i \in 1..Len(inner) : inner[i] = ":"})
                      /\ \A k \in 1..Len(tags) : \A i \in 1..Len(tags[k]) : tags[k][i] # ":"

\* C13 happens: the heading "x ::y:" has the title "x" and the tags "" and "y"
C13_Witness ==
    \E n \in 2..Len(tree) :
        /\ tree[n].cls = "OrgHeadlineNode"
        /\ lines[nodeline[n]] = <<"*", " ", "x", " ", ":", ":", "y", ":">>
        /\ tree[n].text = <<"x">>
        /\ tree[n].tags = << <<>>, <<"y">> >>

\* C13 happens as well: a colon group that is not at the end stays in the title
C13_WitnessInner ==
    \E n \in 2..Len(tree) :
        /\ tree[n].cls = "OrgHeadlineNode"
        /\ tree[n].text = <<":", "x", ":", " ", "x">>
        /\ tree[n].tags = <<>>

\* the step reads a line, and the line is blank
ReadsBlankLine ==
    /\ Len(lines') = Len(lines) + 1
    /\ \A k \in 1..Len(lines'[Len(lines')]) : isspace(lines'[Len(lines')][k])

\* C14: reading an empty line, or one that has whitespace only, returns one
\* TEXT token with the empty value and nothing else: nothing was and nothing
\* is put on hold, the level stays, and the one node made is a text node with
\* the empty text, appended to the destination of the innermost open frame,
\* which stays open.
C14_EmptyLineIsEmptyText ==
    [][ReadsBlankLine =>
          /\ emitted' = Append(emitted, TokenInfo("TEXT", Len(lines'), <<>>))
          /\ orgiter.hold = <<>> /\ orgiter'.hold = <<>>
          /\ orgiter'.level = orgiter.level
          /\ tree' = Attach(tree, stack[Len(stack)].destnode, OrgTextNode(<<>>))
          /\ stack' = stack]_vars

\* C14 happens: a blank line below a heading of level 2 was read, and its
\* empty text node is a child of that heading
C14_Witness ==
    \E i \in Scanned :
        /\ Buf(i) = <<>> /\ lvlhist[i] = 2
        /\ \E n \in 2..Len(tree) :
              /\ nodeline[n] = i /\ tree[n] = OrgTextNode(<<>>)
              /\ tree[Parent(n)].cls = "OrgHeadlineNode" /\ Depth(n) = 3

\* the highest level the tokenizer has had
MaxLevelSoFar == SetMax({0, orgiter.level} \cup {lvlhist[i] : i \in 1..Len(lvlhist)})

\* what is on hold: nothing; or the one TEXT token of the directive returned
\* last; or one HEADLINE token with HLEXIT tokens above it, no more of them
\* than the level went down; all of the line read last
HoldShape ==
    LET h == orgiter.hold
    IN  /\ \A k \in 1..Len(h) : h[k].line = orgiter.lineno
        /\ \/ h = <<>>
           \/ /\ Len(h) = 1 /\ h[1].type = "TEXT"
              /\ emitted # <<>>
              /\ emitted[Len(emitted)].type = "DIRECTIVE"
              /\ emitted[Len(emitted)].line = h[1].line
           \/ /\ h[1].type = "HEADLINE"
              /\ \A k \in 2..Len(h) : h[k].type = "HLEXIT"
              /\ Len(h) - 1 <= orgiter.oldlevel - orgiter.level

\* a line is read only when nothing is on hold, and the tokens are returned
\* in the order of their lines
HoldEmptyAtRead ==
    /\ [][Len(lines') > Len(lines) => orgiter.hold = <<>>]_vars
    /\ [](\A p \in 1..(Len(emitted) - 1) : emitted[p].line <= emitted[p + 1].line)

\* C15, as claimed: the hold has that shape and never more tokens than the
\* highest nesting level reached.
C15_HoldWithinNesting ==
    /\ HoldShape
    /\ Len(orgiter.hold) <= MaxLevelSoFar

\* C15, amended: the hold has that shape; it never has more tokens than the
\* highest nesting level reached, except that the TEXT token of a directive
\* is on hold at any level, also before the first heading (level 0); it is
\* empty whenever a line is read.
C15_HoldShapeAndSize ==
    /\ [](HoldShape /\ Len(orgiter.hold) <= SetMax({1, MaxLevelSoFar}))
    /\ HoldEmptyAtRead

\* C15 happens: a heading took the level from 3 to 1, and waits on hold
\* below two HLEXIT tokens
C15_Witness ==
    /\ Len(orgiter.hold) = 3
    /\ orgiter.hold[1].type = "HEADLINE" /\ orgiter.hold[3].type = "HLEXIT"
    /\ orgiter.oldlevel = 3 /\ orgiter.level = 1

\* the step reads a line that begins with "*" and is no heading: the run of
\* "*" ends the line or is followed by something that is no whitespace
ReadsStarText ==
    /\ Len(lines') = Len(lines) + 1
    /\ LET b == rstrip(lines'[Len(lines')])
       IN  MarkerRun(b) > 0 /\ ~IsHeading(b)

\* C16: reading a line whose run of "*" is not followed by whitespace returns
\* one TEXT token whose value is the whole (right-trimmed) line, puts nothing
\* on hold and leaves level and oldlevel as they were.
C16_StarsWithoutBlankAreText ==
    [][ReadsStarText =>
          /\ emitted' = Append(emitted, TokenInfo("TEXT", Len(lines'),
                                                  rstrip(lines'[Len(lines')])))
          /\ orgiter.hold = <<>> /\ orgiter'.hold = <<>>
          /\ orgiter'.level = orgiter.level
          /\ orgiter'.oldlevel = orgiter.oldlevel]_vars

\* C16 happens: "*x y" was read at level 1, gave one TEXT token and left
\* the level, and the heading "** S" after it went one level down from there
C16_Witness ==
    \E i \in 2..(Len(lvlhist) - 1) :
        /\ lvlhist[i - 1] = 1
        /\ Buf(i) = <<"*", "x", " ", "y">> /\ TypesOf(i) = <<"TEXT">>
        /\ lvlhist[i] = 1
        /\ IsHeading(Buf(i + 1)) /\ lvlhist[i + 1] = 2

\* C16 happens as well: a line of "*" alone gave one TEXT token below a heading
C16_WitnessStarsAlone ==
    \E i \in 2..Len(lvlhist) :
        /\ lvlhist[i - 1] = 2
        /\ Buf(i) = <<"*", "*">> /\ TypesOf(i) = <<"TEXT">>
        /\ lvlhist[i] = 2

\* the control word of the directive line b: what stands between "#+" and
\* the first colon
CtlWord(b) == Slice(b, 2, find(b, ":", 0))

\* the nodes made for line i
NodesOf(i) == {n \in 2..Len(tree) : nodeline[n] = i}

\* a directive is pending in a frame only between the DIRECTIVE token and the
\* TEXT token of one line: in the innermost frame, with the control word as
\* the name, while that TEXT token is the one token on hold
PendingOnlyWithinLine ==
    \A k \in 1..Len(stack) :
        stack[k].prefix # "None" =>
            /\ k = Len(stack)
            /\ emitted # <<>>
            /\ emitted[Len(emitted)].type = "DIRECTIVE"
            /\ emitted[Len(emitted)].line = Len(lines)
            /\ stack[k].dname = CtlWord(Buf(Len(lines)))
            /\ Len(orgiter.hold) = 1 /\ orgiter.hold[1].type = "TEXT"
            /\ orgiter.hold[1].line = Len(lines)

\* a directive line has no node while its TEXT token is to come, and then
\* one node: a directive node with the control word and the trimmed arguments
OneNodePerDirective ==
    \A i \in 1..Len(lvlhist) :
        IsDirective(Buf(i)) =>
            IF TokensAt("TEXT", i) = {} THEN NodesOf(i) = {}
            ELSE /\ Cardinality(NodesOf(i)) = 1
                 /\ \A n \in NodesOf(i) :
                       tree[n] = OrgDirectiveNode(AfterColon(Buf(i)), CtlWord(Buf(i)))

\* the DIRECTIVE token makes no node and leaves the frames open; the TEXT
\* token after it appends the directive node to the destination of the frame
\* that took the DIRECTIVE token, and the marker is gone; a TEXT token with
\* no directive pending appends a text node
DirectiveBuilt ==
    LET top == Len(stack)
        nfo == emitted'[Len(emitted')]
    IN  Len(emitted') = Len(emitted) + 1 =>
            /\ nfo.type = "DIRECTIVE" =>
                  /\ tree' = tree
                  /\ Len(stack') = top
                  /\ stack'[top].destnode = stack[top].destnode
                  /\ stack'[top].prefix = "DIRECTIVE"
            /\ nfo.type = "TEXT" =>
                  /\ tree' = Attach(tree, stack[top].destnode,
                                    IF stack[top].prefix = "DIRECTIVE"
                                    THEN OrgDirectiveNode(nfo.value, stack[top].dname)
                                    ELSE OrgTextNode(nfo.value))
                  /\ \A k \in 1..Len(stack') : stack'[k].prefix = "None"

\* C17: each directive line gives one DirectiveNode (name the control word,
\* text the arguments), appended to the destination that was current when
\* the DIRECTIVE token came, and no TextNode; the TEXT token clears the
\* pending marker, which therefore is never set when a token of another line
\* arrives, in any frame.
C17_OneDirectiveNode ==
    /\ [](PendingOnlyWithinLine /\ OneNodePerDirective)
    /\ [][DirectiveBuilt]_vars

\* C17 happens: a directive node below a heading, and after it a text line
\* that gave a plain text node below the same heading
C17_Witness ==
    \E n \in 2..(Len(tree) - 1) :
        /\ tree[n].cls = "OrgDirectiveNode" /\ tree[n].name = <<"N">>
        /\ tree[Parent(n)].cls = "OrgHeadlineNode"
        /\ tree[n + 1].cls = "OrgTextNode" /\ Parent(n + 1) = Parent(n)

\* the class of the node a line is to give
KindOf(b) ==
    IF IsHeading(b) THEN "OrgHeadlineNode"
    ELSE IF Len(b) > 0 /\ b[1] = "#"
    THEN IF IsDirective(b) THEN "OrgDirectiveNode" ELSE "OrgCommentNode"
    ELSE "OrgTextNode"

\* the nodes of the subtree of n, parents before children, children in order
RECURSIVE Preorder(_)
RECURSIVE PreorderAll(_)
Preorder(n) == <<n>> \o PreorderAll(tree[n].children)

PreorderAll(kids) ==
    IF kids = <<>> THEN <<>> ELSE Preorder(Head(kids)) \o PreorderAll(Tail(kids))

\* no line has two nodes, each node has the class of its line, and the nodes
\* in pre-order are in the order of their lines; a finished parse has read
\* the file to its end and has a node for every line
OneNodePerLine ==
    LET order == Preorder(1)
    IN  /\ \A i \in 1..Len(lines) : Cardinality(NodesOf(i)) <= 1
        /\ \A n \in 2..Len(tree) : tree[n].cls = KindOf(Buf(nodeline[n]))
        /\ Len(order) = Len(tree)
        /\ \A k \in 1..(Len(order) - 1) : nodeline[order[k]] < nodeline[order[k + 1]]
        /\ pc = "done" =>
              /\ fileobj.eof
              /\ \A i \in 1..Len(lines) : Cardinality(NodesOf(i)) = 1

\* an HLEXIT token is taken by a frame above the outermost one
RootKeepsRunning ==
    (/\ Len(emitted') = Len(emitted) + 1
     /\ emitted'[Len(emitted')].type = "HLEXIT")
        => Len(stack) >= 2 /\ Len(stack') = Len(stack) - 1

\* C18: while no call of __next__ faults, every line read gives at most one
\* node, of the class of the line, the pre-order of the tree is the order of
\* the lines, the outermost parse_block never takes an HLEXIT token, and a
\* parse that is done has read the file to its end and has exactly one node
\* for each line.
C18_OneNodePerLine ==
    /\ [](pc # "fault" => OneNodePerLine)
    /\ [][RootKeepsRunning]_vars

\* C18 happens: a finished parse of four lines with a heading, a comment and
\* a directive, in which a frame was closed by an HLEXIT token
C18_Witness ==
    /\ pc = "done" /\ Len(lines) = 4 /\ Len(tree) = 5
    /\ \E p \in 1..Len(emitted) : emitted[p].type = "HLEXIT"
    /\ {"OrgHeadlineNode", "OrgCommentNode", "OrgDirectiveNode"}
          \subseteq {tree[n].cls : n \in 2..Len(tree)}

\* the lines a file with the text d gives when it is iterated: d cut after
\* every newline, so nothing follows a newline that ends d, and the empty
\* text has no line
FileLines(d) ==
    LET parts == split(d, "\n")
    IN  IF parts[Len(parts)] = <<>> THEN SubSeq(parts, 1, Len(parts) - 1) ELSE parts

\* the tree of a finished parse is the tree of its own dump
Reparsed(ls) == MinimalOrgParser(ls) = [pc |-> "done", tree |-> tree]

C19_FixedPointOfPieces ==
    (pc = "done" /\ lines # <<>>) => Reparsed(DumpLines(dumps(tree, 1)))

====
